---- MODULE Spec2Model ----
(***************************************************************************)
(* Model of sciwing's ScienceIEDataUtils                                   *)
(* (src/sciwing/utils/science_ie_data_utils.py): the conversion between    *)
(* brat annotations, per-entity BILOU lines, the merged CoNLL file and     *)
(* back.                                                                   *)
(*                                                                         *)
(* A Python str is a sequence of chunks; a chunk is a TLA+ string standing *)
(* for one or more characters that the code never takes apart.  String     *)
(* concatenation is \o, so formatting (join, f-strings) and parsing        *)
(* (strip, split) are computed on the chunks.                              *)
(***************************************************************************)
EXTENDS Integers, Sequences, FiniteSets, TLC

VARIABLES pc, op, doc, entity, annotations, err, warnings,
          bilou_lines, sentences, annFile, files, outFile, annOut,
          corpus, entity_idx, file_idx, is_sentence_wise

vars == <<pc, op, doc, entity, annotations, err, warnings,
          bilou_lines, sentences, annFile, files, outFile, annOut,
          corpus, entity_idx, file_idx, is_sentence_wise>>

\* the state of a write_bilou_lines call: the folder's documents in the order
\* of self.file_ids, the positions of its two loops and its flag
writer == <<corpus, entity_idx, file_idx, is_sentence_wise>>

\* Bounds of the model.
MaxTokens == 3
MaxAnn == 1
MaxLines == 2
MaxAnnLines == 2
MaxSpans == 2
MaxConllLines == 3

-----------------------------------------------------------------------------
(* Strings *)

\* self._conll_col_sep = " "
conll_col_sep == <<" ">>

\* self.entity_types = ["Process", "Material", "Task"]
entity_types == << <<"Process">>, <<"Material">>, <<"Task">> >>

\* str.lower() on the chunks the model uses
LowerChunk(c) ==
    CASE c = "Process" -> "process"
      [] c = "Material" -> "material"
      [] c = "Task" -> "task"
      [] OTHER -> c

Lower(s) == [k \in 1..Len(s) |-> LowerChunk(s[k])]

\* sep.join(xs)
RECURSIVE Join(_, _)
Join(sep, xs) ==
    IF xs = <<>> THEN <<>>
    ELSE IF Len(xs) = 1 THEN xs[1]
    ELSE xs[1] \o sep \o Join(sep, Tail(xs))

Range(s) == {s[k] : k \in 1..Len(s)}

SeqsUpTo(S, n) == UNION { [1..k -> S] : k \in 0..n }

RECURSIVE Concat(_)
Concat(xs) == IF xs = <<>> THEN <<>> ELSE Head(xs) \o Concat(Tail(xs))

IsWs(c) == c \in {" ", "\t", "\n"}

\* str.strip()
RECURSIVE LStrip(_)
LStrip(s) == IF s # <<>> /\ IsWs(Head(s)) THEN LStrip(Tail(s)) ELSE s

RECURSIVE RStrip(_)
RStrip(s) ==
    IF s # <<>> /\ IsWs(s[Len(s)]) THEN RStrip(SubSeq(s, 1, Len(s) - 1)) ELSE s

Strip(s) == RStrip(LStrip(s))

\* the positions of chunk c in s, and the k-th smallest member of a set P
Positions(s, c) == {i \in 1..Len(s) : s[i] = c}

Kth(P, k) == CHOOSE i \in P : Cardinality({j \in P : j <= i}) = k

\* str.split(sep) for a one-chunk separator: empty fields are kept
Split(s, sep) ==
    LET P == Positions(s, sep)
        n == Cardinality(P)
    IN  [k \in 1..(n + 1) |->
            SubSeq(s, IF k = 1 THEN 1 ELSE Kth(P, k - 1) + 1,
                      IF k = n + 1 THEN Len(s) ELSE Kth(P, k) - 1)]

\* str.split(): runs of whitespace separate, empty fields are dropped
RECURSIVE SplitWsFrom(_, _)
SplitWsFrom(s, cur) ==
    IF s = <<>> THEN (IF cur = <<>> THEN <<>> ELSE <<cur>>)
    ELSE IF IsWs(Head(s))
         THEN (IF cur = <<>> THEN <<>> ELSE <<cur>>) \o SplitWsFrom(Tail(s), <<>>)
    ELSE SplitWsFrom(Tail(s), Append(cur, Head(s)))

SplitWs(s) == SplitWsFrom(s, <<>>)

\* "for line in fp": the lines of a file, each with its terminator
Lines(content) ==
    LET P == Positions(content, "\n")
        n == Cardinality(P)
        last == IF n = 0 THEN 0 ELSE Kth(P, n)
    IN  [k \in 1..n |->
            SubSeq(content, IF k = 1 THEN 1 ELSE Kth(P, k - 1) + 1, Kth(P, k))]
        \o (IF last < Len(content)
            THEN <<SubSeq(content, last + 1, Len(content))>> ELSE <<>>)

\* Decimal numerals: str(n) and int(s)
Digits == <<"0", "1", "2", "3", "4", "5", "6", "7", "8", "9", "10", "11", "12",
            "13", "14", "15", "16">>

Str(n) == <<Digits[n + 1]>>

IsInt(s) == Len(s) = 1 /\ s[1] \in Range(Digits)

Int_(s) == CHOOSE n \in 0..(Len(Digits) - 1) : Digits[n + 1] = s[1]

-----------------------------------------------------------------------------
(* The tokenizer's document: tokens with text, is_space, is_sent_start.    *)
(* Word tokens are one character long and are followed by one blank of the *)
(* text; a whitespace token is one further blank character.                *)

\* The text of the i-th token when it is a word: words differ by position, so
\* that the order of the emitted lines is observable.
WordAt(i) == << <<"a">>, <<"b">>, <<"c">>, <<"d">>, <<"e">> >>[i]

TokLen(t) == Len(t.text)

\* token.idx: the character offset of token i in the text
RECURSIVE Idx(_, _)
Idx(d, i) ==
    IF i = 1 THEN 0
    ELSE Idx(d, i - 1) + TokLen(d[i - 1]) + (IF d[i - 1].is_space THEN 0 ELSE 1)

TextLen(d) == IF d = <<>> THEN 0 ELSE Idx(d, Len(d)) + TokLen(d[Len(d)])

\* All documents of 1..n tokens; sentFlags says whether is_sent_start varies
\* (doc[0].is_sent_start is always True in spaCy).
Docs(n, sentFlags) ==
    UNION { { [i \in 1..k |->
                 [text |-> IF sp[i] THEN <<" ">> ELSE WordAt(i),
                  is_space |-> sp[i],
                  is_sent_start |-> IF i = 1 THEN TRUE ELSE ss[i]]] :
              sp \in [1..k -> BOOLEAN],
              ss \in IF sentFlags THEN [1..k -> BOOLEAN] ELSE {[i \in 1..k |-> FALSE]} } :
            k \in 1..n }

-----------------------------------------------------------------------------
(* spacy.gold.biluo_tags_from_offsets(doc, entities)                       *)

\* starts.get(c): the token whose idx is c, 0 for None
StartTok(d, c) ==
    IF \E i \in 1..Len(d) : Idx(d, i) = c
    THEN CHOOSE i \in 1..Len(d) : Idx(d, i) = c ELSE 0

\* ends.get(c): the token whose idx + len is c, 0 for None
EndTok(d, c) ==
    IF \E i \in 1..Len(d) : Idx(d, i) + TokLen(d[i]) = c
    THEN CHOOSE i \in 1..Len(d) : Idx(d, i) + TokLen(d[i]) = c ELSE 0

\* one iteration of "for start_char, end_char, label in entities"
MarkEntity(biluo, d, e) ==
    LET st == StartTok(d, e[1])
        en == EndTok(d, e[2])
        label == e[3]
    IN  IF st = 0 \/ en = 0 THEN biluo
        ELSE IF st = en THEN [biluo EXCEPT ![st] = <<"U", "-">> \o label]
        ELSE [i \in 1..Len(biluo) |->
                IF i = en THEN <<"L", "-">> \o label
                ELSE IF i = st THEN <<"B", "-">> \o label
                ELSE IF st < i /\ i < en THEN <<"I", "-">> \o label
                ELSE biluo[i]]

RECURSIVE MarkEntities(_, _, _)
MarkEntities(biluo, d, es) ==
    IF es = <<>> THEN biluo
    ELSE MarkEntities(MarkEntity(biluo, d, Head(es)), d, Tail(es))

EntityChars(es) == UNION { (es[k][1])..(es[k][2] - 1) : k \in 1..Len(es) }

biluo_tags_from_offsets(d, es) ==
    LET marked == MarkEntities([i \in 1..Len(d) |-> <<"-">>], d, es)
        chars == EntityChars(es)
    IN  [i \in 1..Len(d) |->
            IF \E c \in Idx(d, i)..(Idx(d, i) + TokLen(d[i]) - 1) : c \in chars
            THEN marked[i] ELSE <<"O">>]

\* Newer spaCy 2.x builds raise ValueError (E103) when two entities share a
\* character; older ones do not check.
Overlapping(es) ==
    \E j, k \in 1..Len(es) :
        j < k /\ ((es[j][1])..(es[j][2] - 1)) \cap ((es[k][1])..(es[k][2] - 1)) # {}

-----------------------------------------------------------------------------
(* _get_annotations_for_entity: the .ann parser                            *)

\* warnings holds the calls of self.msg_printer.warn (shown unless
\* ignore_warnings is set)
NoAnn == [annotations |-> <<>>, warnings |-> <<>>, err |-> "none"]

\* the body of "for line in fp" for one line; acc is the loop's state
ParseLine(acc, line, ent) ==
    IF Strip(line) # <<>> /\ Head(Strip(line)) = "T" /\ Len(Split(line, "\t")) = 3
    THEN LET f == Split(line, "\t")
             tse == SplitWs(f[2])
         IN  IF Len(tse) # 3
             THEN [acc EXCEPT !.warnings = Append(@, "Skipping LINE")]
             ELSE IF ~IsInt(tse[2]) \/ ~IsInt(tse[3])
             THEN [acc EXCEPT !.err = "ValueError"]
             ELSE IF Lower(tse[1]) = Lower(ent)
             THEN [acc EXCEPT !.annotations =
                      Append(@, [start |-> Int_(tse[2]), end |-> Int_(tse[3]),
                                 words |-> f[3], entity_number |-> f[1],
                                 tag |-> tse[1]])]
             ELSE acc
    ELSE acc

RECURSIVE ParseLines(_, _, _)
ParseLines(acc, lines, ent) ==
    IF lines = <<>> \/ acc.err # "none" THEN acc
    ELSE ParseLines(ParseLine(acc, Head(lines), ent), Tail(lines), ent)

get_annotations_for_entity(content, ent) ==
    LET r == ParseLines(NoAnn, Lines(content), ent)
    IN  IF r.err = "none" /\ Len(r.annotations) = 0
        THEN [r EXCEPT !.warnings = Append(@, "0 annotations")]
        ELSE r

-----------------------------------------------------------------------------
(* _get_bilou_lines_for_entity                                             *)

Entities(anns) ==
    [k \in 1..Len(anns) |-> <<anns[k].start, anns[k].end, anns[k].tag>>]

\* mutant: the O tags of the primitive are passed through unqualified
MapTag_OnlyDash(tag, ent) ==
    IF tag = <<"-">> THEN <<"O", "-">> \o ent ELSE tag

\* lambda tag: f"O-{entity}" if tag.startswith("O") or tag == "-" else tag
MapTag(tag, ent) ==
    IF Head(tag) = "O" \/ tag = <<"-">> THEN <<"O", "-">> \o ent ELSE tag

EntityTags(d, anns, ent) ==
    LET tags == biluo_tags_from_offsets(d, Entities(anns))
    IN  [i \in 1..Len(d) |-> MapTag(tags[i], ent)]

\* f"{token.text}{sep}{sep.join([tag] * 3)}"
BilouLine(token, tag) ==
    token.text \o conll_col_sep \o Join(conll_col_sep, <<tag, tag, tag>>)

\* mutant: whitespace tokens are written as lines too
RECURSIVE BilouLinesFrom_KeepSpace(_, _, _)
BilouLinesFrom_KeepSpace(d, tags, i) ==
    IF i > Len(d) THEN <<>>
    ELSE <<BilouLine(d[i], tags[i])>> \o BilouLinesFrom_KeepSpace(d, tags, i + 1)

\* mutant: a whitespace token inside an entity is written as a line
RECURSIVE BilouLinesFrom_KeepTagged(_, _, _)
BilouLinesFrom_KeepTagged(d, tags, i) ==
    IF i > Len(d) THEN <<>>
    ELSE (IF ~d[i].is_space \/ Head(tags[i]) # "O"
          THEN <<BilouLine(d[i], tags[i])>> ELSE <<>>)
         \o BilouLinesFrom_KeepTagged(d, tags, i + 1)

RECURSIVE BilouLinesFrom(_, _, _)
BilouLinesFrom(d, tags, i) ==
    IF i > Len(d) THEN <<>>
    ELSE (IF ~d[i].is_space THEN <<BilouLine(d[i], tags[i])>> ELSE <<>>)
         \o BilouLinesFrom(d, tags, i + 1)

get_bilou_lines(d, anns, ent) == BilouLinesFrom(d, EntityTags(d, anns, ent), 1)

-----------------------------------------------------------------------------
(* get_sentence_wise_bilou_lines.  current_sent is a reference to a list:  *)
(* heap holds the list objects, cur is the object current_sent refers to   *)
(* and sentences holds the references appended so far.                     *)

\* lines 302-305
SentFirst(d, tags) ==
    [heap |-> << IF ~d[1].is_space THEN <<BilouLine(d[1], tags[1])>> ELSE <<>> >>,
     cur |-> 1,
     sentences |-> <<>>]

\* the body of "for tag, token in zip(tags[1:], doc[1:])", lines 310-326
SentStep(st, token, tag) ==
    IF token.is_sent_start
    THEN LET st1 == [st EXCEPT !.sentences = Append(@, st.cur)]
         IN  IF ~token.is_space
             THEN [st1 EXCEPT !.heap = Append(@, <<BilouLine(token, tag)>>),
                              !.cur = Len(st.heap) + 1]
             ELSE st1
    ELSE IF ~token.is_space
         THEN [st EXCEPT !.heap[st.cur] = Append(@, BilouLine(token, tag))]
         ELSE st

RECURSIVE SentLoop(_, _, _, _)
SentLoop(st, d, tags, i) ==
    IF i > Len(d) THEN st
    ELSE SentLoop(SentStep(st, d[i], tags[i]), d, tags, i + 1)

\* mutant: the last sentence is not added
SentLast_Forgotten(st) == st

\* line 329: finally add the last sentence
SentLast(st) == [st EXCEPT !.sentences = Append(@, st.cur)]

\* the value of sentences when the function returns: each reference read
\* after all appends
sentence_wise_lines(d, tags) ==
    LET st == SentLast(SentLoop(SentFirst(d, tags), d, tags, 2))
    IN  [k \in 1..Len(st.sentences) |-> st.heap[st.sentences[k]]]

\* len(list(doc.sents)): spaCy starts a sentence at token 0 and at every later
\* token whose sent_start is set
NumSents(d) == 1 + Cardinality({i \in 2..Len(d) : d[i].is_sent_start})

-----------------------------------------------------------------------------
(* merge_files                                                             *)

\* word, _, _, tag = line.strip().split(sep) needs exactly four fields
Unpacks4(line) == Len(Split(Strip(line), " ")) = 4

\* mutant: the Process column is read from the Task line
MergeLine_TaskTagTwice(task_line, process_line, material_line) ==
    IF Strip(task_line) # <<>>
    THEN IF Unpacks4(task_line) /\ Unpacks4(process_line) /\ Unpacks4(material_line)
         THEN LET task_tag == Split(Strip(task_line), " ")[4]
                  material_tag == Split(Strip(material_line), " ")[4]
                  word == Split(Strip(material_line), " ")[1]
              IN  [err |-> "none",
                   out |-> Join(conll_col_sep,
                                <<word, task_tag, task_tag, material_tag>>)
                           \o <<"\n">>]
         ELSE [err |-> "ValueError", out |-> <<>>]
    ELSE [err |-> "none", out |-> <<"\n">>]

\* mutant: a triple is written as a blank line when any of its lines is blank
MergeLine_AnyBlank(task_line, process_line, material_line) ==
    IF Strip(task_line) # <<>> /\ Strip(process_line) # <<>>
       /\ Strip(material_line) # <<>>
    THEN IF Unpacks4(task_line) /\ Unpacks4(process_line) /\ Unpacks4(material_line)
         THEN LET task_tag == Split(Strip(task_line), " ")[4]
                  process_tag == Split(Strip(process_line), " ")[4]
                  material_tag == Split(Strip(material_line), " ")[4]
                  word == Split(Strip(material_line), " ")[1]
              IN  [err |-> "none",
                   out |-> Join(conll_col_sep,
                                <<word, task_tag, process_tag, material_tag>>)
                           \o <<"\n">>]
         ELSE [err |-> "ValueError", out |-> <<>>]
    ELSE [err |-> "none", out |-> <<"\n">>]

\* the body of the loop of lines 365-385 for one triple of lines: what is
\* written to out_fp, or the ValueError of a failed unpacking
MergeLine(task_line, process_line, material_line) ==
    IF Strip(task_line) # <<>>
    THEN IF Unpacks4(task_line) /\ Unpacks4(process_line) /\ Unpacks4(material_line)
         THEN LET task_tag == Split(Strip(task_line), " ")[4]
                  process_tag == Split(Strip(process_line), " ")[4]
                  material_tag == Split(Strip(material_line), " ")[4]
                  word == Split(Strip(material_line), " ")[1]
              IN  [err |-> "none",
                   out |-> Join(conll_col_sep,
                                <<word, task_tag, process_tag, material_tag>>)
                           \o <<"\n">>]
         ELSE [err |-> "ValueError", out |-> <<>>]
    ELSE [err |-> "none", out |-> <<"\n">>]

\* for task_line, process_line, material_line in zip(task_fp, process_fp,
\* material_fp): stops with the shortest file, or at the first error
RECURSIVE MergeLoop(_, _, _, _)
MergeLoop(acc, tl, pl, ml) ==
    IF tl = <<>> \/ pl = <<>> \/ ml = <<>> THEN acc
    ELSE LET r == MergeLine(Head(tl), Head(pl), Head(ml))
         IN  IF r.err # "none" THEN [acc EXCEPT !.err = r.err]
             ELSE MergeLoop([acc EXCEPT !.out = @ \o r.out],
                            Tail(tl), Tail(pl), Tail(ml))

merge_files(task, process, material) ==
    MergeLoop([err |-> "none", out |-> <<>>],
              Lines(task), Lines(process), Lines(material))

-----------------------------------------------------------------------------
(* write_ann_file_from_conll_file                                          *)

NoConll == [err |-> "none", words |-> <<>>, task_tags |-> <<>>,
            process_tags |-> <<>>, material_tags |-> <<>>]

\* mutant: a line of any other number of fields is passed over
ConllLine_SkipOthers(acc, line) ==
    LET f == SplitWs(line)
    IN  IF Len(f) = 4
        THEN [acc EXCEPT !.words = Append(@, f[1]),
                         !.task_tags = Append(@, f[2]),
                         !.process_tags = Append(@, f[3]),
                         !.material_tags = Append(@, f[4])]
        ELSE IF Len(f) = 3
        THEN [acc EXCEPT !.words = Append(@, <<" ">>),
                         !.task_tags = Append(@, f[1]),
                         !.process_tags = Append(@, f[2]),
                         !.material_tags = Append(@, f[3])]
        ELSE acc

\* lines 416-424: a line of four fields, or of three fields for a whitespace
\* word; any other line fails the second unpacking too
ConllLine(acc, line) ==
    LET f == SplitWs(line)
    IN  IF Len(f) = 4
        THEN [acc EXCEPT !.words = Append(@, f[1]),
                         !.task_tags = Append(@, f[2]),
                         !.process_tags = Append(@, f[3]),
                         !.material_tags = Append(@, f[4])]
        ELSE IF Len(f) = 3
        THEN [acc EXCEPT !.words = Append(@, <<" ">>),
                         !.task_tags = Append(@, f[1]),
                         !.process_tags = Append(@, f[2]),
                         !.material_tags = Append(@, f[3])]
        ELSE [acc EXCEPT !.err = "ValueError"]

RECURSIVE ReadConll(_, _)
ReadConll(acc, lines) ==
    IF lines = <<>> \/ acc.err # "none" THEN acc
    ELSE ReadConll(ConllLine(acc, Head(lines)), Tail(lines))

\* spacy.gold.tags_to_entities: the loop over enumerate(tags); start = 0 is
\* None, entities are <<label, start, end>> in token indices
TagStep(acc, i, tag) ==
    IF Head(tag) = "O" THEN [acc EXCEPT !.start = 0]
    ELSE IF tag = <<"-">> THEN acc
    ELSE IF Head(tag) = "I"
    THEN (IF acc.start = 0 THEN [acc EXCEPT !.err = "ValueError"] ELSE acc)
    ELSE IF Head(tag) = "U"
    THEN [acc EXCEPT !.entities = Append(@, <<SubSeq(tag, 3, Len(tag)), i, i>>)]
    ELSE IF Head(tag) = "B" THEN [acc EXCEPT !.start = i]
    ELSE IF Head(tag) = "L"
    THEN [acc EXCEPT !.entities = Append(@, <<SubSeq(tag, 3, Len(tag)), acc.start, i>>),
                     !.start = 0]
    ELSE [acc EXCEPT !.err = "ValueError"]

RECURSIVE TagLoop(_, _, _)
TagLoop(acc, tags, i) ==
    IF i > Len(tags) \/ acc.err # "none" THEN acc
    ELSE TagLoop(TagStep(acc, i, tags[i]), tags, i + 1)

tags_to_entities(tags) ==
    TagLoop([err |-> "none", entities |-> <<>>, start |-> 0], tags, 1)

\* spacy.gold.offsets_from_biluo_tags: span = doc[start_idx : end_idx + 1],
\* (span.start_char, span.end_char, label); a start of None slices from the
\* first token
offsets_from_biluo_tags(d, tags) ==
    LET r == tags_to_entities(tags)
    IN  [err |-> r.err,
         offsets |->
            [k \in 1..Len(r.entities) |->
               LET st == IF r.entities[k][2] = 0 THEN 1 ELSE r.entities[k][2]
                   en == r.entities[k][3]
               IN  <<Idx(d, st), Idx(d, en) + TokLen(d[en]), r.entities[k][1]>>]]

\* the text the tokenizer was given
Text(d) ==
    Concat([i \in 1..Len(d) |->
              d[i].text \o (IF i < Len(d) /\ ~d[i].is_space THEN <<" ">> ELSE <<>>)])

\* _form_ann_line(idx, char_offset, tag_name, doc), lines 487-495; the surface
\* form is doc.char_span(start, end).text
form_ann_line(idx, char_offset, tag_name, d) ==
    LET surface_form == SubSeq(Text(d), char_offset[1] + 1, char_offset[2])
        l1 == Join(<<" ">>, <<Str(char_offset[1]), Str(char_offset[2])>>)
        l2 == Join(<<"\t">>, <<l1, surface_form>>)
        l3 == Join(<<" ">>, <<tag_name, l2>>)
    IN  Join(<<"\t">>, <<<<"T">> \o Str(idx), l3>>)

\* mutant: the id is the index within the entity type (idx of enumerate)
AnnLinesFor_PerType(offsets, tag_name, d, first) ==
    [k \in 1..Len(offsets) |-> form_ann_line(k - 1, offsets[k], tag_name, d)]

\* lines 432-456: the lines of the Task, Process and Material offsets, with
\* term_idx counting on from first
AnnLinesFor(offsets, tag_name, d, first) ==
    [k \in 1..Len(offsets) |-> form_ann_line(first + k - 1, offsets[k], tag_name, d)]

\* write_ann_file_from_conll_file(conll_filepath, ann_filepath, text): what
\* is written to ann_filepath, or the error raised before it is opened
write_ann_file_from_conll_file(conll, d) ==
    LET c == ReadConll(NoConll, Lines(conll))
        t == offsets_from_biluo_tags(d, c.task_tags)
        p == offsets_from_biluo_tags(d, c.process_tags)
        m == offsets_from_biluo_tags(d, c.material_tags)
    IN  IF c.err # "none" \/ t.err # "none" \/ p.err # "none" \/ m.err # "none"
        THEN [err |-> "ValueError", written |-> FALSE, out |-> <<>>]
        ELSE [err |-> "none", written |-> TRUE,
              out |-> Join(<<"\n">>,
                           AnnLinesFor(t.offsets, <<"Task">>, d, 0)
                           \o AnnLinesFor(p.offsets, <<"Process">>, d, Len(t.offsets))
                           \o AnnLinesFor(m.offsets, <<"Material">>, d,
                                          Len(t.offsets) + Len(p.offsets)))]

-----------------------------------------------------------------------------
(* Inputs                                                                  *)

\* a well-formed line of a brat .ann file: T<k>\t<tag> <start> <end>\t<words>\n
AnnLine(k, tag, s, e, words) ==
    <<"T">> \o Str(k) \o <<"\t">> \o tag \o <<" ">> \o Str(s) \o <<" ">> \o Str(e)
        \o <<"\t">> \o words \o <<"\n">>

Spans(d) == {se \in (0..TextLen(d)) \X (0..TextLen(d)) : se[1] < se[2]}

\* the spans that start and end at the boundaries of non-space tokens
AlignedSpans(d) ==
    { <<Idx(d, i), Idx(d, j) + TokLen(d[j])>> :
        i \in {k \in 1..Len(d) : ~d[k].is_space},
        j \in {k \in 1..Len(d) : ~d[k].is_space} } \cap Spans(d)

OtherEntity(ent) == IF ent = <<"Task">> THEN <<"Process">> ELSE <<"Task">>

\* .ann files of up to n well-formed T lines over the text of d; a line is
\* given as <<tag, <<start, end>>>>
AnnFiles(d, lineset, n) ==
    { Concat([k \in 1..Len(ls) |->
                AnnLine(k, ls[k][1], ls[k][2][1], ls[k][2][2],
                        SubSeq(Text(d), ls[k][2][1] + 1, ls[k][2][2]))]) :
      ls \in SeqsUpTo(lineset, n) }

\* one line of another entity type, which the parser passes over
OtherLine(ent) == <<OtherEntity(ent), <<0, 1>>>>

InitCommon ==
    /\ pc = "start"
    /\ op = "none"
    /\ err = "none"
    /\ warnings = <<>>
    /\ annotations = <<>>
    /\ bilou_lines = <<>>
    /\ sentences = <<>>
    /\ annOut = <<>>
    /\ corpus = <<>>
    /\ entity_idx = 0
    /\ file_idx = 0
    /\ is_sentence_wise = FALSE

-----------------------------------------------------------------------------
(* Operations                                                              *)

\* get_bilou_lines_for_entity(file_id, entity), lines 152-157
GetBilouLinesForEntity ==
    /\ pc = "start"
    /\ LET r == get_annotations_for_entity(annFile, entity)
       IN  /\ annotations' = r.annotations
           /\ warnings' = r.warnings
           /\ \E raises \in (IF Overlapping(Entities(r.annotations))
                              THEN BOOLEAN ELSE {FALSE}) :
                 IF r.err # "none" \/ raises
                 THEN /\ err' = "ValueError"
                      /\ UNCHANGED bilou_lines
                 ELSE /\ err' = "none"
                      /\ bilou_lines' = get_bilou_lines(doc, r.annotations, entity)
    /\ pc' = "done"
    /\ op' = "bilou"
    /\ UNCHANGED writer
    /\ UNCHANGED <<doc, entity, annFile, sentences, files, outFile, annOut>>

\* get_sentence_wise_bilou_lines(file_id, entity_type), lines 270-333
GetSentenceWise ==
    /\ pc = "start"
    /\ LET r == get_annotations_for_entity(annFile, entity)
       IN  /\ annotations' = r.annotations
           /\ warnings' = r.warnings
           /\ \E raises \in (IF Overlapping(Entities(r.annotations))
                              THEN BOOLEAN ELSE {FALSE}) :
                 IF r.err # "none" \/ raises
                 THEN /\ err' = "ValueError"
                      /\ UNCHANGED sentences
                 ELSE LET ss == sentence_wise_lines(doc,
                                    EntityTags(doc, r.annotations, entity))
                      IN  IF Len(ss) = NumSents(doc)
                          THEN /\ err' = "none"
                               /\ sentences' = ss
                          ELSE /\ err' = "AssertionError"
                               /\ UNCHANGED sentences
    /\ pc' = "done"
    /\ op' = "sentence_wise"
    /\ UNCHANGED writer
    /\ UNCHANGED <<doc, entity, annFile, bilou_lines, files, outFile, annOut>>

\* Documents of one sentence, .ann lines tagged with the requested type in
\* either case or with another type.
InitBilou ==
    /\ InitCommon
    /\ doc \in Docs(MaxTokens, FALSE)
    /\ entity \in Range(entity_types)
    /\ annFile \in AnnFiles(doc, ({entity, Lower(entity)} \X Spans(doc))
                                     \cup {OtherLine(entity)}, MaxAnn)
    /\ files = <<>>
    /\ outFile = <<>>

SpecBilou == InitBilou /\ [][GetBilouLinesForEntity]_vars

\* Documents with any sentence starts, .ann lines of the requested type over
\* token-aligned spans, or of another type.
InitSent ==
    /\ InitCommon
    /\ doc \in Docs(MaxTokens, TRUE)
    /\ entity \in Range(entity_types)
    /\ annFile \in AnnFiles(doc, ({entity} \X AlignedSpans(doc))
                                     \cup {OtherLine(entity)}, MaxAnn)
    /\ files = <<>>
    /\ outFile = <<>>

SpecSent == InitSent /\ [][GetSentenceWise \/ GetBilouLinesForEntity]_vars

\* _get_annotations_for_entity(file_id, entity), lines 104-134
GetAnnotationsForEntity ==
    /\ pc = "start"
    /\ LET r == get_annotations_for_entity(annFile, entity)
       IN  /\ annotations' = r.annotations
           /\ warnings' = r.warnings
           /\ err' = r.err
    /\ pc' = "done"
    /\ op' = "parse"
    /\ UNCHANGED writer
    /\ UNCHANGED <<doc, entity, bilou_lines, sentences, annFile, files, outFile,
                   annOut>>

\* Lines of a .ann file: well-formed T lines of the requested and of another
\* type, T lines with a wrong number of tab-separated fields, with a middle
\* field of two or four parts (a discontinuous span), with an offset that is
\* no integer, and a relation line.
RawAnnLines(ent) ==
    { AnnLine(1, ent, 0, 1, <<"a">>),
      AnnLine(2, Lower(ent), 2, 5, <<"b", " ", "c">>),
      AnnLine(3, OtherEntity(ent), 0, 1, <<"a">>),
      <<"T", "4", "\t">> \o ent \o <<" ", "0", " ", "1", "\n">>,
      <<"T", "5", "\t">> \o ent \o <<" ", "0", " ", "1", "\t", "a", "\t", "b", "\n">>,
      <<"T", "6", "\t">> \o ent \o <<" ", "0", "\t", "a", "\n">>,
      <<"T", "7", "\t">> \o ent \o <<" ", "0", " ", "1;2", " ", "3", "\t", "a", " ", "b", "\n">>,
      <<"T", "8", "\t">> \o ent \o <<" ", "x", " ", "1", "\t", "a", "\n">>,
      <<"T", "9", "\t">> \o ent \o <<" ", "0", " ", "1.5", "\t", "a", "\n">>,
      <<"R", "1", "\t", "Synonym-of", " ", "T1", " ", "T2", "\n">> }

InitAnn ==
    /\ InitCommon
    /\ doc = <<>>
    /\ entity \in Range(entity_types)
    /\ annFile \in { Concat(ls) : ls \in SeqsUpTo(RawAnnLines(entity), MaxAnnLines) }
    /\ files = <<>>
    /\ outFile = <<>>

SpecAnn == InitAnn /\ [][GetAnnotationsForEntity]_vars

\* merge_files(task_filename, process_filename, material_filename,
\* out_filename), lines 358-386
MergeFiles ==
    /\ pc = "start"
    /\ LET r == merge_files(files["Task"], files["Process"], files["Material"])
       IN  /\ outFile' = r.out
           /\ err' = r.err
    /\ pc' = "done"
    /\ op' = "merge"
    /\ UNCHANGED writer
    /\ UNCHANGED <<doc, entity, annotations, warnings, bilou_lines, sentences,
                   annFile, files, annOut>>

\* A single-entity CoNLL file given by its lines' kinds: "" for a blank line,
\* else the BILOU letter of a token line "word tag tag tag".  The k-th token
\* line holds the k-th word, as in three files written from the same corpus.
RECURSIVE ConllFrom(_, _, _)
ConllFrom(kinds, k, ent) ==
    IF kinds = <<>> THEN <<>>
    ELSE IF Head(kinds) = "" THEN <<"\n">> \o ConllFrom(Tail(kinds), k, ent)
    ELSE LET t == <<Head(kinds), "-">> \o ent
         IN  WordAt(k) \o <<" ">> \o t \o <<" ">> \o t \o <<" ">> \o t \o <<"\n">>
                 \o ConllFrom(Tail(kinds), k + 1, ent)

ConllFiles(ent, n) ==
    { ConllFrom(kinds, 1, ent) : kinds \in SeqsUpTo({"", "O", "U"}, n) }

InitMerge ==
    /\ InitCommon
    /\ doc = <<>>
    /\ entity = <<>>
    /\ annFile = <<>>
    /\ \E t \in ConllFiles(<<"Task">>, MaxLines),
          p \in ConllFiles(<<"Process">>, MaxLines),
          m \in ConllFiles(<<"Material">>, MaxLines) :
          files = [e \in {"Task", "Process", "Material"} |->
                     IF e = "Task" THEN t ELSE IF e = "Process" THEN p ELSE m]
    /\ outFile = <<>>

SpecMerge == InitMerge /\ [][MergeFiles]_vars

\* lines written one per line, each with its terminator: the form in which
\* merge_files and write_ann_file_from_conll_file read token lines
OnePerLine(ls) == Concat([k \in 1..Len(ls) |-> ls[k] \o <<"\n">>])

\* Round trip, step 1: the BILOU lines of the three entity types, from the
\* annotations of the document's .ann file, each written to its file
RoundTripBilou ==
    /\ pc = "start"
    /\ files' = [e \in {"Task", "Process", "Material"} |->
                   OnePerLine(get_bilou_lines(
                       doc, get_annotations_for_entity(annFile, <<e>>).annotations, <<e>>))]
    /\ pc' = "lines"
    /\ op' = "roundtrip"
    /\ UNCHANGED writer
    /\ UNCHANGED <<doc, entity, annotations, err, warnings, bilou_lines, sentences,
                   annFile, outFile, annOut>>

\* Round trip, step 2: merge_files on the three files
RoundTripMerge ==
    /\ pc = "lines"
    /\ LET r == merge_files(files["Task"], files["Process"], files["Material"])
       IN  /\ outFile' = r.out
           /\ err' = r.err
           /\ pc' = IF r.err = "none" THEN "merged" ELSE "done"
    /\ UNCHANGED writer
    /\ UNCHANGED <<op, doc, entity, annotations, warnings, bilou_lines, sentences,
                   annFile, files, annOut>>

\* Round trip, step 3: write_ann_file_from_conll_file on the merged file and
\* the same text
RoundTripWriteAnn ==
    /\ pc = "merged"
    /\ LET r == write_ann_file_from_conll_file(outFile, doc)
       IN  /\ annOut' = r.out
           /\ err' = r.err
    /\ pc' = "done"
    /\ UNCHANGED writer
    /\ UNCHANGED <<op, doc, entity, annotations, warnings, bilou_lines, sentences,
                   annFile, files, outFile>>

\* the character ranges of the lines of one type do not overlap
WellFormed(ls) ==
    \A j, k \in 1..Len(ls) :
        (j < k /\ ls[j][1] = ls[k][1]) =>
            ((ls[j][2][1])..(ls[j][2][2] - 1)) \cap ((ls[k][2][1])..(ls[k][2][2] - 1)) = {}

\* the documents of a stripped text (get_text_from_fileid, line 72): no
\* whitespace token at either end
Stripped(d) == ~d[1].is_space /\ ~d[Len(d)].is_space

\* Documents of one sentence with a .ann file of well-formed annotations of
\* the three types, aligned to token boundaries.
InitRoundTrip ==
    /\ InitCommon
    /\ doc \in {d \in Docs(MaxTokens, FALSE) : Stripped(d)}
    /\ entity = <<>>
    /\ \E ls \in SeqsUpTo(Range(entity_types) \X AlignedSpans(doc), MaxSpans) :
          /\ WellFormed(ls)
          /\ annFile = Concat([k \in 1..Len(ls) |->
                                 AnnLine(k, ls[k][1], ls[k][2][1], ls[k][2][2],
                                         SubSeq(Text(doc), ls[k][2][1] + 1, ls[k][2][2]))])
    /\ files = <<>>
    /\ outFile = <<>>

SpecRoundTrip ==
    InitRoundTrip /\ [][RoundTripBilou \/ RoundTripMerge \/ RoundTripWriteAnn]_vars

\* the file at ann_filepath does not exist
Absent == <<"(no file)">>

\* write_ann_file_from_conll_file(conll_filepath, ann_filepath, text), lines
\* 410-459: ann_filepath is opened for writing only at line 458
WriteAnnFile ==
    /\ pc = "start"
    /\ LET r == write_ann_file_from_conll_file(outFile, doc)
       IN  /\ err' = r.err
           /\ annOut' = IF r.written THEN r.out ELSE annOut
    /\ pc' = "done"
    /\ op' = "write_ann"
    /\ UNCHANGED writer
    /\ UNCHANGED <<doc, entity, annotations, warnings, bilou_lines, sentences,
                   annFile, files, outFile>>

\* A line of a merged CoNLL file, given by its kind: the BILOU letters of its
\* Task, Process and Material column, for the k-th token of d (a whitespace
\* token gives a line of three fields); "" is a blank line and "w" a line of
\* a word and one tag.
MergedLine(kind, k, d) ==
    IF kind = <<>> THEN <<"\n">>
    ELSE IF kind = <<"w">> THEN d[k].text \o <<" ", "O", "-", "Task", "\n">>
    ELSE d[k].text \o <<" ", kind[1], "-", "Task", " ", kind[2], "-", "Process", " ",
                        kind[3], "-", "Material", "\n">>

LineKinds ==
    { <<"U", "O", "O">>, <<"O", "U", "U">>, <<"O", "O", "O">>, <<"B", "B", "B">>,
      <<"L", "L", "L">>, <<>>, <<"w">> }

\* A stripped document, a merged CoNLL file of at most one line per token,
\* and an annotation file that does not exist or holds earlier content.
InitWriteAnn ==
    /\ pc = "start"
    /\ op = "none"
    /\ err = "none"
    /\ warnings = <<>>
    /\ annotations = <<>>
    /\ bilou_lines = <<>>
    /\ sentences = <<>>
    /\ doc \in {d \in Docs(MaxTokens, FALSE) : Stripped(d)}
    /\ entity = <<>>
    /\ annFile = <<>>
    /\ files = <<>>
    /\ \E n \in 0..(IF Len(doc) < MaxConllLines THEN Len(doc) ELSE MaxConllLines) :
          \E kinds \in [1..n -> LineKinds] :
             outFile = Concat([k \in 1..n |-> MergedLine(kinds[k], k, doc)])
    /\ annOut \in {Absent, <<"T", "0", "\t", "Task", " ", "0", " ", "1", "\t", "old">>}
    /\ corpus = <<>>
    /\ entity_idx = 0
    /\ file_idx = 0
    /\ is_sentence_wise = FALSE

SpecWriteAnn == InitWriteAnn /\ [][WriteAnnFile]_vars

-----------------------------------------------------------------------------
(* write_bilou_lines                                                       *)

\* the largest number of file ids in the folder
MaxDocs == 2

\* open(out_filename, "w"): the file is created or truncated
\* mutant: the file is opened for appending
open_a(fs, name) == [fs EXCEPT ![name] = IF @ = Absent THEN <<>> ELSE @]

open_w(fs, name) == [fs EXCEPT ![name] = <<>>]

\* the body of "for file_id in self.file_ids" up to the writes: the lines of
\* one document for one entity type, as a list of lists of lines.  c is the
\* document's entry in the folder; raises says whether the tokenizer's
\* library rejects overlapping entities.
document_lines(c, ent, sentence_wise, raises) ==
    IF ~c.has_ann \/ ~c.has_txt
    THEN [err |-> "FileNotFoundError", lines |-> <<>>]
    ELSE LET r == get_annotations_for_entity(c.ann, ent)
         IN  IF r.err # "none" \/ raises
             THEN [err |-> "ValueError", lines |-> <<>>]
             ELSE IF sentence_wise
             THEN LET ss == sentence_wise_lines(c.doc,
                                EntityTags(c.doc, r.annotations, ent))
                  IN  IF Len(ss) = NumSents(c.doc)
                      THEN [err |-> "none", lines |-> ss]
                      ELSE [err |-> "AssertionError", lines |-> <<>>]
             ELSE [err |-> "none",
                   lines |-> <<get_bilou_lines(c.doc, r.annotations, ent)>>]

\* for line in bilou_lines: fp.write("\n".join(line)); fp.write("\n\n")
written_lines(bilou) ==
    Concat([k \in 1..Len(bilou) |-> Join(<<"\n">>, bilou[k]) \o <<"\n", "\n">>])

\* for entity_type in self.entity_types: the next type's file is opened
WriteOpen ==
    /\ pc \in {"start", "open"}
    /\ entity_idx < Len(entity_types)
    /\ entity_idx' = entity_idx + 1
    /\ file_idx' = 0
    /\ files' = open_w(files, entity_types[entity_idx + 1][1])
    /\ pc' = "docs"
    /\ op' = "write_bilou"
    /\ UNCHANGED <<doc, entity, annotations, err, warnings, bilou_lines, sentences,
                   annFile, outFile, annOut, corpus, is_sentence_wise>>

\* for file_id in self.file_ids: the next document's lines are computed and
\* written to the open file, or the error of the computation ends the call
WriteDocument ==
    /\ pc = "docs"
    /\ file_idx < Len(corpus)
    /\ LET c == corpus[file_idx + 1]
           ent == entity_types[entity_idx]
           overlap == c.has_ann /\ c.has_txt
                      /\ Overlapping(Entities(
                             get_annotations_for_entity(c.ann, ent).annotations))
       IN  \E raises \in (IF overlap THEN BOOLEAN ELSE {FALSE}) :
              LET r == document_lines(c, ent, is_sentence_wise, raises)
              IN  IF r.err # "none"
                  THEN /\ err' = r.err
                       /\ pc' = "done"
                       /\ UNCHANGED <<files, file_idx>>
                  ELSE /\ files' = [files EXCEPT ![entity_types[entity_idx][1]] =
                                       @ \o written_lines(r.lines)]
                       /\ file_idx' = file_idx + 1
                       /\ UNCHANGED <<err, pc>>
    /\ UNCHANGED <<op, doc, entity, annotations, warnings, bilou_lines, sentences,
                   annFile, outFile, annOut, corpus, entity_idx, is_sentence_wise>>

\* the end of the inner loop closes the file; after the last type the call
\* returns
WriteClose ==
    /\ pc = "docs"
    /\ file_idx = Len(corpus)
    /\ pc' = IF entity_idx = Len(entity_types) THEN "done" ELSE "open"
    /\ UNCHANGED <<op, doc, entity, annotations, err, warnings, bilou_lines,
                   sentences, annFile, files, outFile, annOut, writer>>

\* tokens of the folder's documents
Word(i, sent_start) ==
    [text |-> WordAt(i), is_space |-> FALSE, is_sent_start |-> sent_start]

Space(sent_start) ==
    [text |-> <<" ">>, is_space |-> TRUE, is_sent_start |-> sent_start]

Entry(d, ann, has_txt, has_ann) ==
    [doc |-> d, ann |-> ann, has_txt |-> has_txt, has_ann |-> has_ann]

\* The documents a folder can hold: two sentences with annotations of two
\* types; an entity over a whitespace token; a whitespace token that starts a
\* sentence; two overlapping Material entities; a document without its .ann
\* file; a document without its .txt file.
FolderEntries ==
    { Entry(<<Word(1, TRUE), Word(2, TRUE)>>,
            AnnLine(1, <<"Process">>, 0, 1, <<"a">>)
                \o AnnLine(2, <<"Task">>, 0, 3, <<"a", " ", "b">>), TRUE, TRUE),
      Entry(<<Word(1, TRUE), Space(FALSE), Word(3, FALSE)>>,
            AnnLine(1, <<"Material">>, 0, 4, <<"a", " ", " ", "c">>), TRUE, TRUE),
      Entry(<<Word(1, TRUE), Space(TRUE), Word(3, FALSE)>>, <<>>, TRUE, TRUE),
      Entry(<<Word(1, TRUE), Word(2, FALSE)>>,
            AnnLine(1, <<"Material">>, 0, 1, <<"a">>)
                \o AnnLine(2, <<"Material">>, 0, 3, <<"a", " ", "b">>), TRUE, TRUE),
      Entry(<<Word(1, TRUE)>>, <<>>, TRUE, FALSE),
      Entry(<<Word(1, TRUE)>>, <<>>, FALSE, TRUE) }

\* what the output files held before the call
OldFile == <<"old", "\n">>

InitWrite ==
    /\ pc = "start"
    /\ op = "none"
    /\ err = "none"
    /\ warnings = <<>>
    /\ annotations = <<>>
    /\ bilou_lines = <<>>
    /\ sentences = <<>>
    /\ doc = <<>>
    /\ entity = <<>>
    /\ annFile = <<>>
    /\ outFile = <<>>
    /\ annOut = <<>>
    /\ corpus \in SeqsUpTo(FolderEntries, MaxDocs)
    /\ files \in [{"Task", "Process", "Material"} -> {Absent, OldFile}]
    /\ entity_idx = 0
    /\ file_idx = 0
    /\ is_sentence_wise \in BOOLEAN

SpecWrite == InitWrite /\ [][WriteOpen \/ WriteDocument \/ WriteClose]_vars

-----------------------------------------------------------------------------
(* Properties                                                              *)

\* the indices of the non-space tokens of d, in document order
RECURSIVE NonSpaceFrom(_, _)
NonSpaceFrom(d, i) ==
    IF i > Len(d) THEN <<>>
    ELSE (IF d[i].is_space THEN <<>> ELSE <<i>>) \o NonSpaceFrom(d, i + 1)

NonSpace(d) == NonSpaceFrom(d, 1)

\* the line of token i: its text and its tag in the three tag columns
TokenLine(i) ==
    LET tag == EntityTags(doc, annotations, entity)[i]
    IN  doc[i].text \o <<" ">> \o tag \o <<" ">> \o tag \o <<" ">> \o tag

\* the tag columns of a line "word tag tag tag"
TagCols(line) == Tail(Split(line, " "))

OTag == <<"O", "-">> \o entity

BilouTags == { <<p, "-">> \o entity : p \in {"B", "I", "L", "U", "O"} }

SentDone == pc = "done" /\ op = "sentence_wise" /\ err = "none"

BilouDone == pc = "done" /\ op = "bilou" /\ err = "none"

\* C1: the sentences returned by get_sentence_wise_bilou_lines, concatenated
\* in order, are exactly one line per non-space token in document order, also
\* when a token that starts a sentence is a whitespace token.
C1_StrictCover ==
    SentDone =>
        LET flat == Concat(sentences)
            ns == NonSpace(doc)
        IN  /\ Len(flat) = Len(ns)
            /\ \A k \in 1..Len(ns) : flat[k] = TokenLine(ns[k])

\* C2: the number of sentence groups equals the number of tokens flagged
\* is_sent_start (the first token included), and the assertion of line 331
\* never fails.
C2_SentenceCount ==
    (pc = "done" /\ op = "sentence_wise") =>
        /\ err # "AssertionError"
        /\ err = "none" =>
              Len(sentences) = Cardinality({i \in 1..Len(doc) : doc[i].is_sent_start})

C2_Witness ==
    /\ SentDone
    /\ Len(sentences) >= 2
    /\ \E i \in 2..Len(doc) : doc[i].is_sent_start /\ doc[i].is_space
    /\ \E i \in 2..Len(doc) : doc[i].is_sent_start /\ ~doc[i].is_space

\* C7: with an empty annotation list every line of either function carries
\* O-<entity> in its three tag columns, and the call warns but raises nothing.
C7_AllOutside ==
    (pc = "done" /\ annotations = <<>>) =>
        /\ err = "none"
        /\ warnings = <<"0 annotations">>
        /\ \A k \in 1..Len(bilou_lines) :
              TagCols(bilou_lines[k]) = <<OTag, OTag, OTag>>
        /\ \A s \in 1..Len(sentences) : \A k \in 1..Len(sentences[s]) :
              TagCols(sentences[s][k]) = <<OTag, OTag, OTag>>

C7_Witness ==
    /\ SentDone
    /\ annotations = <<>>
    /\ annFile # <<>>
    /\ Len(sentences) >= 2
    /\ Len(sentences[1]) >= 1 /\ Len(sentences[2]) >= 1

\* C8: every tag _get_bilou_lines_for_entity emits is one of B-E, I-E, L-E,
\* U-E, O-E with E spelled as the requested entity type.
C8_TagsOfRequestedType ==
    BilouDone =>
        \A k \in 1..Len(bilou_lines) :
            \A t \in Range(TagCols(bilou_lines[k])) : t \in BilouTags

\* C9: _get_bilou_lines_for_entity returns exactly one line per non-space
\* token, in token order, each the token text followed by the token's tag in
\* the three tag columns.
C9_OneLinePerToken ==
    BilouDone =>
        LET ns == NonSpace(doc)
        IN  /\ Len(bilou_lines) = Cardinality({i \in 1..Len(doc) : ~doc[i].is_space})
            /\ Len(bilou_lines) = Len(ns)
            /\ \A k \in 1..Len(ns) : bilou_lines[k] = TokenLine(ns[k])

C9_Witness ==
    /\ BilouDone
    /\ \E i \in 1..Len(doc) : doc[i].is_space
    /\ Len(bilou_lines) >= 2
    /\ \E k \in 1..Len(bilou_lines) : TagCols(bilou_lines[k])[1] # OTag

\* the lines of the three inputs of merge_files
TaskLines == Lines(files["Task"])
ProcessLines == Lines(files["Process"])
MaterialLines == Lines(files["Material"])

Blank(line) == Strip(line) = <<>>

TokenCount(ls) == Cardinality({k \in 1..Len(ls) : ~Blank(ls[k])})

Min3(a, b, c) == IF a <= b /\ a <= c THEN a ELSE IF b <= c THEN b ELSE c

\* the line triples the loop can read
Triples == Min3(Len(TaskLines), Len(ProcessLines), Len(MaterialLines))

MergeDone == pc = "done" /\ op = "merge"

\* C4: merge_files raises an error whenever the three files differ in their
\* number of non-blank lines.
C4_MismatchRaises ==
    (MergeDone /\ ~(TokenCount(TaskLines) = TokenCount(ProcessLines)
                    /\ TokenCount(ProcessLines) = TokenCount(MaterialLines)))
        => err # "none"

\* the precondition of the merger: the same tokens and the same blank lines
Aligned ==
    /\ Len(TaskLines) = Len(ProcessLines)
    /\ Len(ProcessLines) = Len(MaterialLines)
    /\ \A k \in 1..Len(TaskLines) :
          /\ Blank(TaskLines[k]) = Blank(ProcessLines[k])
          /\ Blank(ProcessLines[k]) = Blank(MaterialLines[k])
          /\ ~Blank(TaskLines[k]) =>
                /\ SplitWs(TaskLines[k])[1] = SplitWs(ProcessLines[k])[1]
                /\ SplitWs(ProcessLines[k])[1] = SplitWs(MaterialLines[k])[1]

\* C5: on aligned inputs merge_files writes one line per input line, in
\* order: a blank line where the inputs are blank, else the word and the tags
\* of the Task, Process and Material line.
C5_MergedColumns ==
    (MergeDone /\ Aligned) =>
        LET out == Lines(outFile)
        IN  /\ err = "none"
            /\ Len(out) = Len(TaskLines)
            /\ \A k \in 1..Len(out) :
                  IF Blank(TaskLines[k]) THEN out[k] = <<"\n">>
                  ELSE out[k] = SplitWs(TaskLines[k])[1] \o <<" ">>
                                  \o SplitWs(TaskLines[k])[2] \o <<" ">>
                                  \o SplitWs(ProcessLines[k])[2] \o <<" ">>
                                  \o SplitWs(MaterialLines[k])[2] \o <<"\n">>

C5_Witness ==
    /\ MergeDone /\ Aligned
    /\ Len(TaskLines) >= 2
    /\ \E k \in 1..Len(TaskLines) : Blank(TaskLines[k])
    /\ \E k \in 1..Len(TaskLines) :
          /\ ~Blank(TaskLines[k])
          /\ Head(SplitWs(TaskLines[k])[2]) # Head(SplitWs(ProcessLines[k])[2])

\* the inputs have a blank line at a position where another input has none
BlankMismatch ==
    \E k \in 1..Triples :
        ~(Blank(TaskLines[k]) = Blank(ProcessLines[k])
          /\ Blank(ProcessLines[k]) = Blank(MaterialLines[k]))

\* C6 as stated: with blank lines at different positions merge_files raises
\* nothing and writes one line for every line triple it reads, whichever file
\* holds the blank line.
C6_SilentWhicheverFile ==
    (MergeDone /\ BlankMismatch) =>
        /\ err = "none"
        /\ Len(Lines(outFile)) = Triples

\* the triples whose Task line is a token line while the Process or the
\* Material line is blank
Unpackable ==
    {k \in 1..Triples :
        ~Blank(TaskLines[k]) /\ (Blank(ProcessLines[k]) \/ Blank(MaterialLines[k]))}

\* C6 amended: merge_files checks nothing itself.  A triple whose Task line
\* is blank is written as a blank line whatever the other two lines hold; the
\* first triple whose Task line holds a token while the Process or Material
\* line is blank raises ValueError and ends the merge after the lines before it.
C6_SilentOnlyForTaskBlank ==
    MergeDone =>
        LET out == Lines(outFile)
        IN  IF Unpackable = {}
            THEN /\ err = "none"
                 /\ Len(out) = Triples
                 /\ \A k \in 1..Triples : Blank(TaskLines[k]) => out[k] = <<"\n">>
            ELSE /\ err = "ValueError"
                 /\ \E k \in Unpackable :
                       /\ \A j \in Unpackable : k <= j
                       /\ Len(out) = k - 1

C6_Witness ==
    /\ MergeDone /\ BlankMismatch
    /\ err = "none"
    /\ \E k \in 1..Triples : Blank(TaskLines[k]) /\ ~Blank(ProcessLines[k])
    /\ Len(Lines(outFile)) >= 2

\* a T line of a .ann file that is malformed: its tab-separated field count is
\* not 3, its middle field has not exactly three parts, or an offset is no
\* integer
Malformed(line) ==
    /\ Strip(line) # <<>> /\ Head(Strip(line)) = "T"
    /\ \/ Len(Split(line, "\t")) # 3
       \/ Len(SplitWs(Split(line, "\t")[2])) # 3
       \/ ~IsInt(SplitWs(Split(line, "\t")[2])[2])
       \/ ~IsInt(SplitWs(Split(line, "\t")[2])[3])

\* the entity ids of the well-formed T lines of the requested type
RECURSIVE MatchingIds(_, _)
MatchingIds(ls, ent) ==
    IF ls = <<>> THEN <<>>
    ELSE (IF /\ Strip(Head(ls)) # <<>> /\ Head(Strip(Head(ls))) = "T"
             /\ ~Malformed(Head(ls))
             /\ Lower(SplitWs(Split(Head(ls), "\t")[2])[1]) = Lower(ent)
          THEN <<Split(Head(ls), "\t")[1]>> ELSE <<>>)
         \o MatchingIds(Tail(ls), ent)

\* C10: every malformed annotation line is skipped with a warning and
\* parsing continues: it never aborts _get_annotations_for_entity and never
\* contributes an annotation.
C10_MalformedSkipped ==
    (pc = "done" /\ op = "parse") =>
        LET ls == Lines(annFile)
        IN  /\ err = "none"
            /\ Cardinality({k \in 1..Len(warnings) : warnings[k] = "Skipping LINE"})
                  = Cardinality({k \in 1..Len(ls) : Malformed(ls[k])})
            /\ [k \in 1..Len(annotations) |-> annotations[k].entity_number]
                  = MatchingIds(ls, entity)

\* the (start, end, tag) triples of the lines of a .ann file
AnnTriples(content) ==
    { LET f == SplitWs(Split(l, "\t")[2]) IN <<Int_(f[2]), Int_(f[3]), f[1]>> :
        l \in {x \in Range(Split(content, "\n")) : x # <<>>} }

\* C3: for token-aligned, well-formed annotations, the BILOU lines of Task,
\* Process and Material, merged and converted back with the same text, give
\* annotation lines with the (start, end, tag) triples of the original.
C3_RoundTrip ==
    (pc = "done" /\ op = "roundtrip") =>
        /\ err = "none"
        /\ AnnTriples(annOut) = AnnTriples(annFile)

\* the round trip on documents without whitespace tokens
C3_RoundTripNoSpace ==
    (pc = "done" /\ op = "roundtrip" /\ \A i \in 1..Len(doc) : ~doc[i].is_space) =>
        /\ err = "none"
        /\ AnnTriples(annOut) = AnnTriples(annFile)

\* a line without its terminator
Chomp(line) ==
    IF line # <<>> /\ line[Len(line)] = "\n" THEN SubSeq(line, 1, Len(line) - 1)
    ELSE line

\* the annotations of the well-formed T lines of the requested type, in file
\* order, with the line's surface text as words
RECURSIVE LineAnnotations(_, _)
LineAnnotations(ls, ent) ==
    IF ls = <<>> THEN <<>>
    ELSE LET f == Split(Chomp(Head(ls)), "\t")
         IN  (IF /\ Strip(Head(ls)) # <<>> /\ Head(Strip(Head(ls))) = "T"
                 /\ ~Malformed(Head(ls))
                 /\ Lower(SplitWs(f[2])[1]) = Lower(ent)
              THEN << [start |-> Int_(SplitWs(f[2])[2]),
                       end |-> Int_(SplitWs(f[2])[3]),
                       words |-> f[3],
                       entity_number |-> f[1],
                       tag |-> SplitWs(f[2])[1]] >>
              ELSE <<>>)
             \o LineAnnotations(Tail(ls), ent)

\* C11: _get_annotations_for_entity returns, in file order, exactly one
\* annotation for each well-formed T line whose tag equals the requested type
\* ignoring case, with the offsets as integers, the tag, the entity id and as
\* words the surface text of the line, without a line terminator.
C11_AnnotationsOfType ==
    (pc = "done" /\ op = "parse" /\ err = "none") =>
        annotations = LineAnnotations(Lines(annFile), entity)

WriteAnnDone == pc = "done" /\ op = "write_ann" /\ err = "none"

NonEmpty(x) == x # <<>>

\* the lines of the written annotation file
WrittenLines == SelectSeq(Split(annOut, "\n"), NonEmpty)

\* the spans of a tag column of the CoNLL file: one for each U and each L tag
ColumnSpans(col) ==
    LET ls == Lines(outFile)
    IN  Cardinality({k \in 1..Len(ls) :
           Head(SplitWs(ls[k])[Len(SplitWs(ls[k])) - 3 + col]) \in {"U", "L"}})

\* C12: the annotation lines are those of the Task spans, then of the Process
\* spans, then of the Material spans, and the k-th line overall (from 0) has
\* the id T<k>: one counter for the three types, never reset.
C12_OneCounter ==
    WriteAnnDone =>
        LET nt == ColumnSpans(1)
            np == ColumnSpans(2)
            nm == ColumnSpans(3)
        IN  /\ Len(WrittenLines) = nt + np + nm
            /\ \A k \in 1..Len(WrittenLines) :
                  LET f == Split(WrittenLines[k], "\t")
                  IN  /\ f[1] = <<"T">> \o Str(k - 1)
                      /\ SplitWs(f[2])[1] =
                            (IF k <= nt THEN <<"Task">>
                             ELSE IF k <= nt + np THEN <<"Process">>
                             ELSE <<"Material">>)
            /\ \A j, k \in 1..Len(WrittenLines) :
                  j # k => Split(WrittenLines[j], "\t")[1] # Split(WrittenLines[k], "\t")[1]

C12_Witness ==
    /\ WriteAnnDone
    /\ ColumnSpans(1) >= 2 /\ ColumnSpans(2) >= 1 /\ ColumnSpans(3) >= 1
    /\ ColumnSpans(1) # ColumnSpans(2)

\* a line of the CoNLL file with neither four nor three fields
OtherLines ==
    \E l \in Range(Lines(outFile)) : Len(SplitWs(l)) \notin {3, 4}

\* every tag of the CoNLL file is an O or a U tag
OnlyOU ==
    \A l \in Range(Lines(outFile)) :
        \A k \in 1..Len(SplitWs(l)) :
            (Len(SplitWs(l)) \in {3, 4} /\ k > Len(SplitWs(l)) - 3)
                => Head(SplitWs(l)[k]) \in {"O", "U"}

\* C15: write_ann_file_from_conll_file accepts lines of four fields and of
\* three fields; any other line, a blank line included, raises ValueError, and
\* an error leaves the file at ann_filepath as it was, absent or unchanged.
C15_OtherLinesRaise ==
    [][WriteAnnFile =>
          /\ OtherLines => (err' = "ValueError" /\ annOut' = annOut)
          /\ err' # "none" => annOut' = annOut
          /\ (~OtherLines /\ OnlyOU) => (err' = "none" /\ annOut' # Absent)]_vars

C15_Witness ==
    /\ pc = "done" /\ op = "write_ann"
    /\ err = "ValueError"
    /\ annOut # Absent
    /\ \E l \in Range(Lines(outFile)) : l = <<"\n">>
    /\ \E l \in Range(Lines(outFile)) : Len(SplitWs(l)) = 3

\* the name of the k-th entity type, which names its output file
TypeName(k) == entity_types[k][1]

\* what a file holds once the first n documents are written for the k-th type
DocumentsWritten(k, n) ==
    Concat([j \in 1..n |->
              written_lines(document_lines(corpus[j], entity_types[k],
                                           is_sentence_wise, FALSE).lines)])

\* the computation of the next document's lines fails
NextDocumentFails(raises) ==
    /\ pc = "docs"
    /\ file_idx < Len(corpus)
    /\ document_lines(corpus[file_idx + 1], entity_types[entity_idx],
                      is_sentence_wise, raises).err # "none"

FilesInOrder ==
    op = "write_bilou" =>
        /\ \A k \in 1..(entity_idx - 1) :
              files[TypeName(k)] = DocumentsWritten(k, Len(corpus))
        /\ files[TypeName(entity_idx)] = DocumentsWritten(entity_idx, file_idx)

\* C13: write_bilou_lines takes the entity types in the order Process,
\* Material, Task, truncates a type's file before the type's first document
\* and appends the documents' lines in the order of file_ids.  When a document
\* fails for a type, the error ends the call there and nothing runs after it:
\* the files of the earlier types hold all documents, the file of the type
\* holds the lines of the documents before the failing one, and the files of
\* the later types are as they were before the call.
C13_PartialFileOnFailure ==
    /\ []FilesInOrder
    /\ [][/\ pc # "done"
          /\ entity_idx' \in {entity_idx, entity_idx + 1}
          /\ \A k \in (entity_idx' + 1)..Len(entity_types) :
                files'[TypeName(k)] = files[TypeName(k)]
          /\ NextDocumentFails(FALSE) =>
                /\ pc' = "done"
                /\ err' # "none"
                /\ files' = files
                /\ UNCHANGED <<entity_idx, file_idx>>]_vars

C13_Witness ==
    /\ pc = "done" /\ op = "write_bilou"
    /\ err # "none"
    /\ entity_idx = 2 /\ file_idx = 1
    /\ files["Process"] = DocumentsWritten(1, 2)
    /\ files["Material"] # <<>>
    /\ files["Task"] = OldFile

WriteDone == pc = "done" /\ op = "write_bilou" /\ err = "none"

\* C14: after a completed call of write_bilou_lines, sentence-wise or not, the
\* three files have the same number of lines, blank lines at the same
\* positions and the same token in the first column of every other line.
C14_FilesAligned ==
    WriteDone => Aligned

C14_Witness ==
    /\ WriteDone
    /\ Len(corpus) = 2
    /\ TokenCount(TaskLines) >= 3
    /\ files["Task"] # files["Process"]
    /\ files["Process"] # files["Material"]
    /\ \E k \in 2..(Len(TaskLines) - 1) : Blank(TaskLines[k]) /\ ~Blank(TaskLines[k + 1])

====
